---- MODULE Spec2Model ----
(***************************************************************************)
(* micro-invest: the ledger kept by AppProvider and the portfolio          *)
(* analytics computed from it (calculateSnapshot, calculateInsight,        *)
(* calculatePortfolioMetrics, transformSnapshots).                         *)
(*                                                                         *)
(* Numbers.  A JavaScript number is modelled as a record [n, d]:           *)
(*   d > 0          the rational n/d in lowest terms,                      *)
(*   d = 0, n = 1   Infinity,   d = 0, n = -1   -Infinity,                 *)
(*   d = 0, n = 0   NaN.                                                   *)
(* Division follows IEEE 754 for a zero divisor (x/0 is +-Infinity, 0/0 is *)
(* NaN); the rounding of a quotient to 53 bits is not modelled, quotients  *)
(* are exact.  Amounts are integers.  A root that is not rational          *)
(* (Math.pow(x, 1 / periods), Math.sqrt) is kept as the expression it is.  *)
(*                                                                         *)
(* Dates.  An ISO date 'YYYY-MM-DD' is the integer YYYYMMDD, so that the   *)
(* order of the strings is the order of the integers.                      *)
(***************************************************************************)
EXTENDS Integers, Sequences, FiniteSets, TLC

VARIABLES
    entries,   \* data.entries of AppProvider: the ledger, a sequence of entries
    sel,       \* the selector handed to transformSnapshots (NoSel: not called)
    chart,     \* the chart points transformSnapshots returned for sel
    insightAt, \* the index of the snapshot handed to calculateInsight (0: not called)
    insight,   \* what calculateInsight returned for it
    called,    \* the engine operation a caller has called ("": none yet)
    given,     \* the caller's list as it was handed to the operation
    argAfter,  \* the same list of the caller after the operation returned
    metrics,   \* what calculatePortfolioMetrics returned
    dateSnapshot \* what calculateSnapshot returned

VARIABLES
    ui,        \* data.ui of AppProvider: selectedDate (<<>> for null) and viewMode
    storage,   \* localStorage under STORAGE_KEY: <<>> (no item) or <<text>>
    op,        \* the last step of the app shell and what it was given (history)
    pending,   \* the importCSV call waiting for parseCSVFile (<<>>: none)
    importResult, \* what the last importCSV call returned
    toasts,    \* the toasts state of ToastProvider
    timers,    \* the setTimeout callbacks not yet run
    now        \* Date.now(), in milliseconds since the page was opened

vars == <<entries, sel, chart, insightAt, insight,
          called, given, argAfter, metrics, dateSnapshot,
          ui, storage, op, pending, importResult, toasts, timers, now>>

----------------------------------------------------------------------------
(* Bounds of the model and the input sets. *)

MaxEntries == 3

Dates == {20240131, 20240229, 20240331}
Names == {"A", "B"}
Amounts == {-1, 0, 1, 2}
Rates == {5}

Entry == [date : Dates, investment : Names, amount : Amounts, rate : Rates]

DataTypes == {"returns", "portfolio", "allocation"}
TimeViews == {"cumulative", "period"}
DisplayModes == {"percentage", "absolute"}
Selectors == [dataType : DataTypes, timeView : TimeViews, displayMode : DisplayModes]

----------------------------------------------------------------------------
(* JavaScript numbers. *)

Abs(x) == IF x < 0 THEN -x ELSE x

RECURSIVE Gcd(_, _)
Gcd(a, b) == IF b = 0 THEN a ELSE Gcd(b, a % b)

NaN == [n |-> 0, d |-> 0]
Infinity == [n |-> 1, d |-> 0]
NegInfinity == [n |-> -1, d |-> 0]

Num(a) == [n |-> a, d |-> 1]

IsFinite(x) == x.d > 0

\* a / b for integers a and b, as JavaScript's / gives it
JsDiv(a, b) ==
    IF b = 0
    THEN IF a = 0 THEN NaN ELSE IF a > 0 THEN Infinity ELSE NegInfinity
    ELSE LET g == Gcd(Abs(a), Abs(b))
             s == IF b < 0 THEN -1 ELSE 1
         IN  [n |-> (s * a) \div g, d |-> Abs(b) \div g]

\* x * k for a number x and an integer k > 0
JsMul(x, k) ==
    IF x.d = 0 THEN x
    ELSE LET g == Gcd(Abs(x.n * k), x.d)
         IN  [n |-> (x.n * k) \div g, d |-> x.d \div g]

\* x + y for finite numbers x and y
JsAdd(x, y) ==
    LET n == x.n * y.d + y.n * x.d
        d == x.d * y.d
        g == Gcd(Abs(n), d)
    IN  [n |-> n \div g, d |-> d \div g]

\* x - y for finite numbers x and y
JsSub(x, y) == JsAdd(x, [n |-> -y.n, d |-> y.d])

\* x * y for finite numbers x and y
JsTimes(x, y) ==
    LET g1 == Gcd(Abs(x.n), y.d)
        g2 == Gcd(Abs(y.n), x.d)
    IN  [n |-> (x.n \div g1) * (y.n \div g2), d |-> (x.d \div g2) * (y.d \div g1)]

\* x / y for finite numbers x and y, y not 0
JsQuot(x, y) ==
    JsTimes(x, IF y.n < 0 THEN [n |-> -y.d, d |-> -y.n] ELSE [n |-> y.d, d |-> y.n])

\* b to the power p for an integer b >= 0 and p >= 1
RECURSIVE IntPow(_, _)
IntPow(b, p) == IF p = 1 THEN b ELSE b * IntPow(b, p - 1)

\* the greatest r in lo..hi with r^p <= k, where lo^p <= k
RECURSIVE IntRootBetween(_, _, _, _)
IntRootBetween(k, p, lo, hi) ==
    IF lo = hi THEN lo
    ELSE LET mid == (lo + hi + 1) \div 2
         IN  IF IntPow(mid, p) <= k
             THEN IntRootBetween(k, p, mid, hi)
             ELSE IntRootBetween(k, p, lo, mid - 1)

\* the integer part of the p-th root of k >= 0 (46340^2 is the largest
\* square of the model's integers)
IntRoot(k, p) == IntRootBetween(k, p, 0, IF k < 1000 THEN k ELSE 46340)

\* an irrational root, kept as the expression it is: radicand ^ (1 / index)
Surd(x, p) == [radicand |-> x, index |-> p]

IsSurd(x) == "radicand" \in DOMAIN x

\* Math.pow(x, 1 / p) for a number x and an integer p >= 1
JsRoot(x, p) ==
    IF p = 1 THEN x
    ELSE IF x = NaN THEN NaN
    ELSE IF x.d = 0 THEN Infinity
    ELSE IF x.n < 0 THEN NaN
    ELSE LET rn == IntRoot(x.n, p)
             rd == IntRoot(x.d, p)
         IN  IF IntPow(rn, p) = x.n /\ IntPow(rd, p) = x.d
             THEN [n |-> rn, d |-> rd]
             ELSE Surd(x, p)

\* Math.sqrt(x) for a finite number x >= 0
JsSqrt(x) == JsRoot(x, 2)

----------------------------------------------------------------------------
(* Array helpers. *)

\* array.filter(entry => entry.amount > 0)
Positive(es) == SelectSeq(es, LAMBDA e : e.amount > 0)

\* array.reduce((sum, entry) => sum + entry.amount, 0)
RECURSIVE SumAmounts(_)
SumAmounts(es) ==
    IF es = <<>> THEN 0 ELSE SumAmounts(SubSeq(es, 1, Len(es) - 1)) + es[Len(es)].amount

\* array.find(e => e.investment === name): the index of the first match, 0 if none
RECURSIVE FindIndexFrom(_, _, _)
FindIndexFrom(es, name, i) ==
    IF i > Len(es) THEN 0
    ELSE IF es[i].investment = name THEN i
    ELSE FindIndexFrom(es, name, i + 1)

FindIndex(es, name) == FindIndexFrom(es, name, 1)

\* [...new Set(array)]: the first occurrence of each value, in order
RECURSIVE Dedup(_)
Dedup(s) ==
    IF s = <<>> THEN <<>>
    ELSE LET r == Dedup(SubSeq(s, 1, Len(s) - 1))
             x == s[Len(s)]
         IN  IF \E i \in 1..Len(r) : r[i] = x THEN r ELSE Append(r, x)

\* insertion of x into the ascending sequence s, after the elements equal to it
RECURSIVE InsertAsc(_, _)
InsertAsc(s, x) ==
    IF s = <<>> THEN <<x>>
    ELSE IF s[Len(s)] <= x THEN Append(s, x)
    ELSE Append(InsertAsc(SubSeq(s, 1, Len(s) - 1), x), s[Len(s)])

\* array.sort() of date strings
RECURSIVE SortDates(_)
SortDates(s) ==
    IF s = <<>> THEN <<>>
    ELSE InsertAsc(SortDates(SubSeq(s, 1, Len(s) - 1)), s[Len(s)])

----------------------------------------------------------------------------
(* utils/calculations.ts *)

\* calculateSnapshot with the Math.abs around the sum of the debts forgotten
calculateSnapshotSignedDebt(es, date) ==
    LET dateEntries == SelectSeq(es, LAMBDA e : e.date = date)
        totalValue == SumAmounts(SelectSeq(dateEntries, LAMBDA e : e.amount > 0))
        totalDebt == SumAmounts(SelectSeq(dateEntries, LAMBDA e : e.amount < 0))
    IN  [date |-> date,
         entries |-> dateEntries,
         totalValue |-> totalValue,
         totalDebt |-> totalDebt,
         netWorth |-> totalValue - totalDebt]

calculateSnapshot(es, date) ==
    LET dateEntries == SelectSeq(es, LAMBDA e : e.date = date)
        totalValue == SumAmounts(SelectSeq(dateEntries, LAMBDA e : e.amount > 0))
        totalDebt == Abs(SumAmounts(SelectSeq(dateEntries, LAMBDA e : e.amount < 0)))
    IN  [date |-> date,
         entries |-> dateEntries,
         totalValue |-> totalValue,
         totalDebt |-> totalDebt,
         netWorth |-> totalValue - totalDebt]

\* x < y on JavaScript numbers
JsLess(x, y) ==
    IF x = NaN \/ y = NaN THEN FALSE
    ELSE IF x.d = 0 /\ y.d = 0 THEN x.n < y.n
    ELSE IF x.d = 0 THEN x.n < 0
    ELSE IF y.d = 0 THEN y.n > 0
    ELSE x.n * y.d < y.n * x.d

\* calculateActualReturn scoring a missing or zero previous amount as 0 percent
calculateActualReturnZero(currentAmount, previousAmount) ==
    IF previousAmount = <<>> \/ previousAmount[1] = 0 THEN <<Num(0)>>
    ELSE <<JsMul(JsDiv(currentAmount - previousAmount[1], Abs(previousAmount[1])), 100)>>

\* previousAmount is <<>> for undefined, the result is <<>> for null
calculateActualReturn(currentAmount, previousAmount) ==
    IF previousAmount = <<>> \/ previousAmount[1] = 0 THEN <<>>
    ELSE <<JsMul(JsDiv(currentAmount - previousAmount[1], Abs(previousAmount[1])), 100)>>

\* previousEntry?.amount for the entry named name of previousSnapshot (<<>>: undefined)
PreviousAmountOf(previousSnapshot, name) ==
    IF previousSnapshot = <<>> THEN <<>>
    ELSE LET i == FindIndex(previousSnapshot[1].entries, name)
         IN  IF i = 0 THEN <<>> ELSE <<previousSnapshot[1].entries[i].amount>>

\* the forEach that picks topPerformer and underperformer: perf is <<top, under>>
RECURSIVE Performers(_, _)
Performers(es, previousSnapshot) ==
    IF es = <<>>
    THEN [top |-> [name |-> "", growth |-> NegInfinity],
          under |-> [name |-> "", growth |-> Infinity]]
    ELSE LET perf == Performers(SubSeq(es, 1, Len(es) - 1), previousSnapshot)
             entry == es[Len(es)]
             actualReturn == calculateActualReturn(entry.amount,
                                 PreviousAmountOf(previousSnapshot, entry.investment))
         IN  IF actualReturn = <<>> THEN perf
             ELSE [top |-> IF JsLess(perf.top.growth, actualReturn[1])
                           THEN [name |-> entry.investment, growth |-> actualReturn[1]]
                           ELSE perf.top,
                   under |-> IF JsLess(actualReturn[1], perf.under.growth)
                             THEN [name |-> entry.investment, growth |-> actualReturn[1]]
                             ELSE perf.under]

\* allocation[entry.investment] = (entry.amount / snapshot.totalValue) * 100
RECURSIVE InsightAllocation(_, _)
InsightAllocation(es, totalValue) ==
    IF es = <<>> THEN [k \in {} |-> Num(0)]
    ELSE LET r == InsightAllocation(SubSeq(es, 1, Len(es) - 1), totalValue)
             e == es[Len(es)]
         IN  [k \in (DOMAIN r) \cup {e.investment} |->
                 IF k = e.investment THEN JsMul(JsDiv(e.amount, totalValue), 100)
                 ELSE r[k]]

\* previousSnapshot is <<>> for undefined, <<snapshot>> otherwise
calculateInsight(snapshot, previousSnapshot) ==
    LET positiveEntries == Positive(snapshot.entries)
        perf == Performers(positiveEntries, previousSnapshot)
    IN  [topPerformer |-> perf.top,
         underperformer |-> perf.under,
         monthlyChange |->
             IF previousSnapshot # <<>>
             THEN JsMul(JsDiv(snapshot.netWorth - previousSnapshot[1].netWorth,
                              previousSnapshot[1].netWorth), 100)
             ELSE Num(0),
         allocation |-> InsightAllocation(positiveEntries, snapshot.totalValue)]

\* the date '' of a month that was never set
NoDate == 0

\* NoDataMetrics with the months left as the loop initialises them
NoDataMetricsUnset ==
    [totalReturn |-> Num(0),
     totalReturnPercentage |-> Num(0),
     monthlyGrowthRate |-> Num(0),
     volatility |-> Num(0),
     sharpeRatio |-> Num(0),
     maxDrawdown |-> Num(0),
     bestMonth |-> [date |-> NoDate, return |-> NegInfinity],
     worstMonth |-> [date |-> NoDate, return |-> Infinity]]

\* the result for fewer than two snapshots
NoDataMetrics ==
    [totalReturn |-> Num(0),
     totalReturnPercentage |-> Num(0),
     monthlyGrowthRate |-> Num(0),
     volatility |-> Num(0),
     sharpeRatio |-> Num(0),
     maxDrawdown |-> Num(0),
     bestMonth |-> [date |-> NoDate, return |-> Num(0)],
     worstMonth |-> [date |-> NoDate, return |-> Num(0)]]

\* the return of currentSnapshot over prevSnapshot, in percent
MonthlyReturn(prevSnapshot, currentSnapshot) ==
    IF prevSnapshot.netWorth # 0
    THEN JsMul(JsDiv(currentSnapshot.netWorth - prevSnapshot.netWorth,
                     Abs(prevSnapshot.netWorth)), 100)
    ELSE Num(0)

\* monthlyReturns: one return for each snapshot after the first
MonthlyReturns(sortedSnapshots) ==
    [i \in 1..(Len(sortedSnapshots) - 1) |->
        MonthlyReturn(sortedSnapshots[i], sortedSnapshots[i + 1])]

\* IsBetterMonth with >= for >: of equal returns the last one wins
IsBetterMonthOrEqual(monthlyReturn, bestMonth) == ~JsLess(monthlyReturn, bestMonth.return)

\* monthlyReturn > bestMonth.return
IsBetterMonth(monthlyReturn, bestMonth) == JsLess(bestMonth.return, monthlyReturn)

\* monthlyReturn < worstMonth.return
IsWorseMonth(monthlyReturn, worstMonth) == JsLess(monthlyReturn, worstMonth.return)

\* bestMonth and worstMonth after the loop has handled sortedSnapshots[2..k]
RECURSIVE ExtremeMonths(_, _)
ExtremeMonths(sortedSnapshots, k) ==
    IF k <= 1
    THEN [bestMonth |-> [date |-> NoDate, return |-> NegInfinity],
          worstMonth |-> [date |-> NoDate, return |-> Infinity]]
    ELSE LET m == ExtremeMonths(sortedSnapshots, k - 1)
             currentSnapshot == sortedSnapshots[k]
             monthlyReturn == MonthlyReturn(sortedSnapshots[k - 1], currentSnapshot)
         IN  [bestMonth |->
                  IF IsBetterMonth(monthlyReturn, m.bestMonth)
                  THEN [date |-> currentSnapshot.date, return |-> monthlyReturn]
                  ELSE m.bestMonth,
              worstMonth |->
                  IF IsWorseMonth(monthlyReturn, m.worstMonth)
                  THEN [date |-> currentSnapshot.date, return |-> monthlyReturn]
                  ELSE m.worstMonth]

\* (root - 1) * 100 for the root Math.pow returned
GrowthRateOfRoot(root) ==
    IF IsSurd(root) THEN [root |-> root, minus |-> 1, times |-> 100]
    ELSE IF root.d = 0 THEN root
    ELSE JsMul(JsSub(root, Num(1)), 100)

\* (Math.pow(last.netWorth / Math.abs(first.netWorth), 1 / periods) - 1) * 100
MonthlyGrowthRate(firstSnapshot, lastSnapshot, periods) ==
    IF periods > 0
    THEN GrowthRateOfRoot(JsRoot(JsDiv(lastSnapshot.netWorth,
                                       Abs(firstSnapshot.netWorth)), periods))
    ELSE Num(0)

\* rets.reduce((sum, ret) => sum + ret, 0)
RECURSIVE SumReturns(_)
SumReturns(rets) ==
    IF rets = <<>> THEN Num(0)
    ELSE JsAdd(SumReturns(SubSeq(rets, 1, Len(rets) - 1)), rets[Len(rets)])

\* the sum of the returns divided by their number
AvgMonthlyReturn(monthlyReturns) ==
    JsQuot(SumReturns(monthlyReturns), Num(Len(monthlyReturns)))

\* the mean of Math.pow(ret - avgMonthlyReturn, 2) over the returns
Variance(monthlyReturns) ==
    LET avg == AvgMonthlyReturn(monthlyReturns)
        squares == [i \in 1..Len(monthlyReturns) |->
                       JsTimes(JsSub(monthlyReturns[i], avg),
                               JsSub(monthlyReturns[i], avg))]
    IN  JsQuot(SumReturns(squares), Num(Len(monthlyReturns)))

\* volatility !== 0 ? avgMonthlyReturn / volatility : 0
SharpeRatio(avgMonthlyReturn, volatility) ==
    IF IsSurd(volatility) THEN [dividend |-> avgMonthlyReturn, divisor |-> volatility]
    ELSE IF volatility # Num(0) THEN JsQuot(avgMonthlyReturn, volatility)
    ELSE Num(0)

\* Drawdown without the test of the peak against 0
DrawdownUnguarded(peak, netWorth) == JsMul(JsDiv(peak - netWorth, peak), 100)

\* peak !== 0 ? ((peak - snapshot.netWorth) / peak) * 100 : 0
Drawdown(peak, netWorth) ==
    IF peak # 0 THEN JsMul(JsDiv(peak - netWorth, peak), 100) ELSE Num(0)

\* peak and maxDrawdown after the loop has handled sortedSnapshots[1..k]
RECURSIVE Drawdowns(_, _)
Drawdowns(sortedSnapshots, k) ==
    IF k = 0
    THEN [peak |-> sortedSnapshots[1].netWorth, maxDrawdown |-> Num(0)]
    ELSE LET s == Drawdowns(sortedSnapshots, k - 1)
             netWorth == sortedSnapshots[k].netWorth
             peak == IF netWorth > s.peak THEN netWorth ELSE s.peak
             drawdown == Drawdown(peak, netWorth)
         IN  [peak |-> peak,
              maxDrawdown |-> IF JsLess(s.maxDrawdown, drawdown)
                              THEN drawdown
                              ELSE s.maxDrawdown]

----------------------------------------------------------------------------
(* context/AppProvider.tsx: the derived values. *)

\* uniqueDates without the Set: one date per entry
uniqueDatesNoSet(es) == SortDates([i \in 1..Len(es) |-> es[i].date])

\* uniqueDates without the sort: the dates in the order the ledger first names them
uniqueDatesUnsorted(es) == Dedup([i \in 1..Len(es) |-> es[i].date])

uniqueDates(es) == SortDates(Dedup([i \in 1..Len(es) |-> es[i].date]))

BuildSnapshots(es) ==
    LET ds == uniqueDates(es)
    IN  [i \in 1..Len(ds) |-> calculateSnapshot(es, ds[i])]

snapshots == BuildSnapshots(entries)

----------------------------------------------------------------------------
(* utils/chartData.ts *)

\* format(new Date(dateStr), 'yyyy-MM'): the year and month of the date
formatDate(date) == date \div 100

\* assets[key] = val on a Record<string, number>
Assign(assets, key, val) ==
    [k \in (DOMAIN assets) \cup {key} |-> IF k = key THEN val ELSE assets[k]]

EmptyAssets == [k \in {} |-> Num(0)]

\* SortByDate trusting the caller: the list is taken in the order given
SortByDateTrusting(s) == s

\* the stable sort of snapshots by a.date.localeCompare(b.date)
RECURSIVE InsertByDate(_, _)
InsertByDate(s, x) ==
    IF s = <<>> THEN <<x>>
    ELSE IF s[Len(s)].date <= x.date THEN Append(s, x)
    ELSE Append(InsertByDate(SubSeq(s, 1, Len(s) - 1), x), s[Len(s)])

RECURSIVE SortByDate(_)
SortByDate(s) ==
    IF s = <<>> THEN <<>>
    ELSE InsertByDate(SortByDate(SubSeq(s, 1, Len(s) - 1)), s[Len(s)])

\* TotalReturn without the test of the baseline's net worth against 0
TotalReturnUnguarded(snapshot, baseline, displayMode) ==
    IF displayMode = "absolute"
    THEN Num(snapshot.netWorth - baseline.netWorth)
    ELSE JsMul(JsDiv(snapshot.netWorth - baseline.netWorth, Abs(baseline.netWorth)), 100)

\* the total of a returns point against the baseline snapshot
TotalReturn(snapshot, baseline, displayMode) ==
    IF displayMode = "absolute"
    THEN Num(snapshot.netWorth - baseline.netWorth)
    ELSE IF baseline.netWorth # 0
         THEN JsMul(JsDiv(snapshot.netWorth - baseline.netWorth, Abs(baseline.netWorth)), 100)
         ELSE Num(0)

\* AssetReturn falling back to 0 in both display modes
AssetReturnZeroFallback(entry, baseline, displayMode) ==
    LET i == FindIndex(baseline.entries, entry.investment)
    IN  IF i # 0 /\ baseline.entries[i].amount > 0
        THEN IF displayMode = "absolute"
             THEN Num(entry.amount - baseline.entries[i].amount)
             ELSE JsMul(JsDiv(entry.amount - baseline.entries[i].amount,
                              baseline.entries[i].amount), 100)
        ELSE Num(0)

\* the value a returns point gives one positive entry against the baseline snapshot
AssetReturn(entry, baseline, displayMode) ==
    LET i == FindIndex(baseline.entries, entry.investment)
    IN  IF i # 0 /\ baseline.entries[i].amount > 0
        THEN IF displayMode = "absolute"
             THEN Num(entry.amount - baseline.entries[i].amount)
             ELSE JsMul(JsDiv(entry.amount - baseline.entries[i].amount,
                              baseline.entries[i].amount), 100)
        ELSE IF displayMode = "absolute" THEN Num(entry.amount) ELSE Num(0)

\* snapshot.entries.filter(e => e.amount > 0).forEach(entry => assets[...] = ...)
RECURSIVE ReturnAssets(_, _, _)
ReturnAssets(es, baseline, displayMode) ==
    IF es = <<>> THEN EmptyAssets
    ELSE LET e == es[Len(es)]
         IN  Assign(ReturnAssets(SubSeq(es, 1, Len(es) - 1), baseline, displayMode),
                    e.investment, AssetReturn(e, baseline, displayMode))

\* ReturnsBaseline measuring every view against the previous snapshot
ReturnsBaselinePrevious(snaps, index, timeView) ==
    IF index > 1 THEN snaps[index - 1] ELSE snaps[index]

\* ReturnsBaseline measuring every view against the first snapshot
ReturnsBaselineFirst(snaps, index, timeView) == snaps[1]

\* firstSnapshot in the cumulative view, prevSnapshot in the period view
ReturnsBaseline(snaps, index, timeView) ==
    IF timeView = "cumulative" THEN snaps[1]
    ELSE IF index > 1 THEN snaps[index - 1] ELSE snaps[index]

calculateReturns(snaps, timeView, displayMode) ==
    [index \in 1..Len(snaps) |->
        LET snapshot == snaps[index]
            baseline == ReturnsBaseline(snaps, index, timeView)
        IN  [date |-> formatDate(snapshot.date),
             total |-> TotalReturn(snapshot, baseline, displayMode),
             assets |-> ReturnAssets(Positive(snapshot.entries), baseline, displayMode)]]

\* cumulative portfolio values: assets[entry.investment] = entry.amount
RECURSIVE ValueAssets(_)
ValueAssets(es) ==
    IF es = <<>> THEN EmptyAssets
    ELSE Assign(ValueAssets(SubSeq(es, 1, Len(es) - 1)),
                es[Len(es)].investment, Num(es[Len(es)].amount))

\* PrevAmount counting a liability of the previous snapshot as absent
PrevAmountAssetsOnly(prevSnapshot, name) ==
    LET i == FindIndex(prevSnapshot.entries, name)
    IN  IF i # 0 /\ prevSnapshot.entries[i].amount > 0
        THEN prevSnapshot.entries[i].amount
        ELSE 0

\* prevEntry?.amount || 0
PrevAmount(prevSnapshot, name) ==
    LET i == FindIndex(prevSnapshot.entries, name)
    IN  IF i # 0 THEN prevSnapshot.entries[i].amount ELSE 0

\* period portfolio values: assets[entry.investment] = entry.amount - prevAmount
RECURSIVE ChangeAssets(_, _)
ChangeAssets(es, prevSnapshot) ==
    IF es = <<>> THEN EmptyAssets
    ELSE LET e == es[Len(es)]
         IN  Assign(ChangeAssets(SubSeq(es, 1, Len(es) - 1), prevSnapshot),
                    e.investment, Num(e.amount - PrevAmount(prevSnapshot, e.investment)))

calculatePortfolioValues(snaps, timeView) ==
    [index \in 1..Len(snaps) |->
        LET snapshot == snaps[index]
            prevSnapshot == IF index > 1 THEN snaps[index - 1] ELSE snapshot
        IN  IF timeView = "cumulative"
            THEN [date |-> formatDate(snapshot.date),
                  total |-> Num(snapshot.netWorth),
                  assets |-> ValueAssets(Positive(snapshot.entries))]
            ELSE [date |-> formatDate(snapshot.date),
                  total |-> Num(snapshot.netWorth - prevSnapshot.netWorth),
                  assets |-> ChangeAssets(Positive(snapshot.entries), prevSnapshot)]]

\* AllocationShare without the scaling to percent
AllocationShareFraction(amount, totalPositiveValue) ==
    IF totalPositiveValue > 0
    THEN JsDiv(amount, totalPositiveValue)
    ELSE Num(0)

\* the share of one positive entry in the snapshot's positive total
AllocationShare(amount, totalPositiveValue) ==
    IF totalPositiveValue > 0
    THEN JsMul(JsDiv(amount, totalPositiveValue), 100)
    ELSE Num(0)

RECURSIVE AllocationAssets(_, _)
AllocationAssets(es, totalPositiveValue) ==
    IF es = <<>> THEN EmptyAssets
    ELSE Assign(AllocationAssets(SubSeq(es, 1, Len(es) - 1), totalPositiveValue),
                es[Len(es)].investment,
                AllocationShare(es[Len(es)].amount, totalPositiveValue))

calculateAllocation(snaps) ==
    [index \in 1..Len(snaps) |->
        LET positiveEntries == Positive(snaps[index].entries)
            totalPositiveValue == SumAmounts(positiveEntries)
        IN  [date |-> formatDate(snaps[index].date),
             total |-> Num(100),
             assets |-> AllocationAssets(positiveEntries, totalPositiveValue)]]

\* transformSnapshots answering an empty list with one empty point
transformSnapshotsEmptyPoint(snaps, dataType, timeView, displayMode) ==
    LET sortedSnapshots == SortByDate(snaps)
    IN  IF Len(sortedSnapshots) = 0
        THEN <<[date |-> NoDate, total |-> Num(0), assets |-> EmptyAssets]>>
        ELSE CASE dataType = "returns" ->
                    calculateReturns(sortedSnapshots, timeView, displayMode)
               [] dataType = "portfolio" ->
                    calculatePortfolioValues(sortedSnapshots, timeView)
               [] dataType = "allocation" ->
                    calculateAllocation(sortedSnapshots)
               [] OTHER -> <<>>

transformSnapshots(snaps, dataType, timeView, displayMode) ==
    LET sortedSnapshots == SortByDate(snaps)
    IN  IF Len(sortedSnapshots) = 0 THEN <<>>
        ELSE CASE dataType = "returns" ->
                    calculateReturns(sortedSnapshots, timeView, displayMode)
               [] dataType = "portfolio" ->
                    calculatePortfolioValues(sortedSnapshots, timeView)
               [] dataType = "allocation" ->
                    calculateAllocation(sortedSnapshots)
               [] OTHER -> <<>>

\* utils/calculations.ts
calculatePortfolioMetrics(snaps) ==
    IF Len(snaps) < 2 THEN NoDataMetrics
    ELSE LET sortedSnapshots == SortByDate(snaps)
             firstSnapshot == sortedSnapshots[1]
             lastSnapshot == sortedSnapshots[Len(sortedSnapshots)]
             totalReturn == lastSnapshot.netWorth - firstSnapshot.netWorth
             monthlyReturns == MonthlyReturns(sortedSnapshots)
             months == ExtremeMonths(sortedSnapshots, Len(sortedSnapshots))
             periods == Len(sortedSnapshots) - 1
             avgMonthlyReturn == AvgMonthlyReturn(monthlyReturns)
             volatility == JsSqrt(Variance(monthlyReturns))
         IN  [totalReturn |-> Num(totalReturn),
              totalReturnPercentage |->
                  IF firstSnapshot.netWorth # 0
                  THEN JsMul(JsDiv(totalReturn, Abs(firstSnapshot.netWorth)), 100)
                  ELSE Num(0),
              monthlyGrowthRate |-> MonthlyGrowthRate(firstSnapshot, lastSnapshot, periods),
              volatility |-> volatility,
              sharpeRatio |-> SharpeRatio(avgMonthlyReturn, volatility),
              maxDrawdown |-> Drawdowns(sortedSnapshots, Len(sortedSnapshots)).maxDrawdown,
              bestMonth |-> months.bestMonth,
              worstMonth |-> months.worstMonth]

\* the caller's array after [...snapshots].sort(...) sorted it in place
ArgumentAfterSortInPlace(snaps) == SortByDate(snaps)

\* the caller's array after [...snapshots].sort(...): the copy is sorted,
\* the array itself is left as it was given
ArgumentAfterSort(snaps) == snaps

\* the caller's array after filter, find, forEach, map or reduce ran over it
ArgumentAfterRead(list) == list

----------------------------------------------------------------------------
(* context/AppProvider.tsx: the operations on the ledger. *)

\* uniqueDates.map(date => calculateSnapshot(data.entries, date)) is BuildSnapshots

\* snapshots.map(s => s.date).sort().reverse()
getAvailableDates(snaps) ==
    LET sorted == SortDates([i \in 1..Len(snaps) |-> snaps[i].date])
    IN  [i \in 1..Len(sorted) |-> sorted[Len(sorted) + 1 - i]]

\* <<>> for null
getLatestSnapshot(snaps) ==
    IF Len(snaps) > 0 THEN <<snaps[Len(snaps)]>> ELSE <<>>

addEntry(es, entry) == Append(es, entry)

updateEntry(es, oldEntry, newEntry) ==
    [i \in 1..Len(es) |->
        IF es[i].date = oldEntry.date /\ es[i].investment = oldEntry.investment
        THEN newEntry
        ELSE es[i]]

\* deleteEntry filtering by the date alone
deleteEntryByDate(es, date, investment) ==
    SelectSeq(es, LAMBDA e : ~(e.date = date))

deleteEntry(es, date, investment) ==
    SelectSeq(es, LAMBDA e : ~(e.date = date /\ e.investment = investment))

\* { ...prev, ...updates } for updates = { entries }
updateData(es, newEntries) == newEntries

\* AppStorage.clear(); setData(AppStorage.load()): the default data
clearData(es) == <<>>

\* hooks/useDataImport.ts: the entries a successful import hands to updateData
importEntries(es, rows, mode) ==
    IF mode = "replace" THEN rows ELSE es \o rows

----------------------------------------------------------------------------
(* AppStorage: the app data in localStorage.  The item is the text         *)
(* JSON.stringify wrote; a text is modelled by the JSON values it spells:  *)
(* a number, a string or null, each tagged with its JSON type.  null in    *)
(* memory is Null, and a null selectedDate is <<>>.                        *)

Null == [null |-> TRUE]

JsonNull == [json |-> "null"]

\* JSON.stringify of a number: null for NaN, Infinity and -Infinity
stringifyNumber(x) ==
    IF IsFinite(x) THEN [json |-> "number", value |-> x] ELSE JsonNull

stringifyString(x) == [json |-> "string", value |-> x]

\* JSON.parse of a number, a string or null
parseValue(t) == IF t.json = "null" THEN Null ELSE t.value

\* { ...a, ...b }
Spread(a, b) ==
    [k \in (DOMAIN a) \cup (DOMAIN b) |-> IF k \in DOMAIN b THEN b[k] ELSE a[k]]

\* JSON.stringify(data) for data = { entries, ui }
stringify(data) ==
    [entries |->
        [i \in 1..Len(data.entries) |->
            [date |-> stringifyString(data.entries[i].date),
             investment |-> stringifyString(data.entries[i].investment),
             amount |-> stringifyNumber(data.entries[i].amount),
             rate |-> stringifyNumber(data.entries[i].rate)]],
     ui |->
        [selectedDate |-> IF data.ui.selectedDate = <<>> THEN JsonNull
                          ELSE stringifyString(data.ui.selectedDate[1]),
         viewMode |-> stringifyString(data.ui.viewMode)]]

\* JSON.parse(stored)
parse(text) ==
    [entries |->
        [i \in 1..Len(text.entries) |->
            [date |-> parseValue(text.entries[i].date),
             investment |-> parseValue(text.entries[i].investment),
             amount |-> parseValue(text.entries[i].amount),
             rate |-> parseValue(text.entries[i].rate)]],
     ui |->
        [selectedDate |-> IF text.ui.selectedDate.json = "null" THEN <<>>
                          ELSE <<parseValue(text.ui.selectedDate)>>,
         viewMode |-> parseValue(text.ui.viewMode)]]

defaultUI == [selectedDate |-> <<>>, viewMode |-> "overview"]

defaultData == [entries |-> <<>>, ui |-> defaultUI]

\* AppStorage.load
load(item) ==
    IF item = <<>> THEN defaultData ELSE Spread(defaultData, parse(item[1]))

\* AppStorage.save: the item after save(data)
save(item, data) == <<stringify(Spread(load(item), data))>>

\* AppStorage.clear
clear(item) == <<>>

\* the entries of a ledger of whole amounts as JavaScript numbers
Numbers(es) ==
    [i \in 1..Len(es) |-> [es[i] EXCEPT !.amount = Num(@), !.rate = Num(@)]]

----------------------------------------------------------------------------
(* The application: the ledger under the operations of the app context. *)

NoSel == [dataType |-> "none", timeView |-> "none", displayMode |-> "none"]

NoInsight ==
    [topPerformer |-> [name |-> "", growth |-> Num(0)],
     underperformer |-> [name |-> "", growth |-> Num(0)],
     monthlyChange |-> Num(0),
     allocation |-> [k \in {} |-> Num(0)]]

\* the rows of the CSV files a user imports
SampleRow == [date |-> 20240131, investment |-> "A", amount |-> 1, rate |-> 5]
ImportFiles ==
    {<<e>> : e \in Entry}
        \cup {<<e, SampleRow>> : e \in {x \in Entry : x.investment = "A" /\ x.amount > 0}}

\* no snapshot computed yet
NoSnapshot == [date |-> NoDate, entries |-> <<>>, totalValue |-> 0, totalDebt |-> 0,
               netWorth |-> 0]

callVars == <<called, given, argAfter, metrics, dateSnapshot>>

engineVars == <<sel, chart, insightAt, insight, callVars>>

toastVars == <<toasts, timers, now>>

importVars == <<pending, importResult>>

\* what the operations on the ledger leave alone
viewVars == <<ui, op, importVars, toastVars>>

shellVars == <<ui, storage, op, importVars, toastVars>>

NoOp == [name |-> "", key |-> <<>>]

\* the app as AppProvider and ToastProvider construct it on an empty storage
NoShell ==
    /\ ui = defaultUI
    /\ storage = <<>>
    /\ op = NoOp
    /\ pending = <<>>
    /\ importResult = <<>>
    /\ toasts = <<>>
    /\ timers = <<>>
    /\ now = 0

NoCall ==
    /\ called = ""
    /\ given = <<>>
    /\ argAfter = <<>>
    /\ metrics = NoDataMetrics
    /\ dateSnapshot = NoSnapshot

Init ==
    /\ entries = <<>>
    /\ sel = NoSel
    /\ chart = <<>>
    /\ insightAt = 0
    /\ insight = NoInsight
    /\ NoCall
    /\ NoShell

AddEntry(entry) ==
    /\ Len(entries) < MaxEntries
    /\ entries' = addEntry(entries, entry)
    /\ storage' = save(storage, [entries |-> Numbers(entries'), ui |-> ui])
    /\ UNCHANGED <<engineVars, viewVars>>

UpdateEntry(oldEntry, newEntry) ==
    /\ entries' = updateEntry(entries, oldEntry, newEntry)
    /\ storage' = save(storage, [entries |-> Numbers(entries'), ui |-> ui])
    /\ UNCHANGED <<engineVars, viewVars>>

\* Snapshot.saveEdit: updateEntry(editingEntry, { ...editingEntry, amount, rate })
SaveEdit(i, amount, rate) ==
    UpdateEntry(entries[i], [entries[i] EXCEPT !.amount = amount, !.rate = rate])

DeleteEntry(date, investment) ==
    /\ entries' = deleteEntry(entries, date, investment)
    /\ storage' = save(storage, [entries |-> Numbers(entries'), ui |-> ui])
    /\ UNCHANGED <<engineVars, viewVars>>

ImportCSV(rows, mode) ==
    /\ Len(importEntries(entries, rows, mode)) <= MaxEntries
    /\ entries' = updateData(entries, importEntries(entries, rows, mode))
    /\ storage' = save(storage, [entries |-> Numbers(entries'), ui |-> ui])
    /\ UNCHANGED <<engineVars, viewVars>>

ClearData ==
    /\ entries' = clearData(entries)
    /\ storage' = clear(storage)
    /\ UNCHANGED <<engineVars, viewVars>>

Next ==
    \/ \E entry \in Entry : AddEntry(entry)
    \/ \E i \in 1..Len(entries), amount \in Amounts, rate \in Rates : SaveEdit(i, amount, rate)
    \/ \E date \in Dates, investment \in Names : DeleteEntry(date, investment)
    \/ \E rows \in ImportFiles, mode \in {"replace", "merge"} : ImportCSV(rows, mode)
    \/ ClearData

Spec == Init /\ [][Next]_vars

----------------------------------------------------------------------------
(* The analytics engine: the pure functions applied once to the snapshots  *)
(* of a ledger.  The snapshots of a ledger do not depend on how entries of *)
(* different dates interleave, so the ledgers are drawn in date order.     *)

Ledgers == UNION {[1..n -> Entry] : n \in 0..MaxEntries}

EngineLedgers ==
    {es \in Ledgers : \A i \in 1..(Len(es) - 1) : es[i].date <= es[i + 1].date}

\* the ledger of the spec's scenario: net worths 1000, 1100, 1320
ScenarioLedger ==
    <<[date |-> 20240131, investment |-> "A", amount |-> 1000, rate |-> 5],
      [date |-> 20240229, investment |-> "A", amount |-> 1100, rate |-> 5],
      [date |-> 20240331, investment |-> "A", amount |-> 1320, rate |-> 5]>>

InitEngine ==
    /\ entries \in EngineLedgers \cup {ScenarioLedger}
    /\ sel = NoSel
    /\ chart = <<>>
    /\ insightAt = 0
    /\ insight = NoInsight
    /\ NoCall
    /\ NoShell

\* TimeSeries: transformSnapshots(snapshots, dataType, viewType, displayMode)
Transform(s) ==
    /\ sel = NoSel
    /\ insightAt = 0
    /\ sel' = s
    /\ chart' = transformSnapshots(snapshots, s.dataType, s.timeView, s.displayMode)
    /\ UNCHANGED <<entries, insightAt, insight, callVars, shellVars>>

\* Snapshot: calculateInsight(snapshot, previousSnapshot) for the snapshot at index
Insight(index) ==
    /\ sel = NoSel
    /\ insightAt = 0
    /\ insightAt' = index
    /\ insight' = calculateInsight(snapshots[index],
                      IF index > 1 THEN <<snapshots[index - 1]>> ELSE <<>>)
    /\ UNCHANGED <<entries, sel, chart, callVars, shellVars>>

NextEngine ==
    \/ \E s \in Selectors : Transform(s)
    \/ \E index \in 1..Len(snapshots) : Insight(index)

SpecEngine == InitEngine /\ [][NextEngine]_vars

----------------------------------------------------------------------------
(* The engine under any caller: each operation called once on the          *)
(* snapshots of a ledger, the list operations with the snapshots handed    *)
(* over in any order.  What varies here is the order of the list, so the   *)
(* ledgers are drawn with the entries of one date in one order (by name,   *)
(* then by amount); SpecEngine draws them in every order.                  *)

FirstName == CHOOSE name \in Names : TRUE

\* may e1 stand immediately before e2 in a ledger drawn for a caller
InCallerOrder(e1, e2) ==
    \/ e1.date < e2.date
    \/ /\ e1.date = e2.date
       /\ IF e1.investment = e2.investment
          THEN e1.amount <= e2.amount
          ELSE e1.investment = FirstName

CallerLedgers ==
    {es \in Ledgers : \A i \in 1..(Len(es) - 1) : InCallerOrder(es[i], es[i + 1])}

InitCaller ==
    /\ entries \in CallerLedgers \cup {ScenarioLedger}
    /\ sel = NoSel
    /\ chart = <<>>
    /\ insightAt = 0
    /\ insight = NoInsight
    /\ NoCall
    /\ NoShell

\* the orders in which a caller may hand over a list of n snapshots
Orders(n) == {p \in [1..n -> 1..n] : \A i, j \in 1..n : i # j => p[i] # p[j]}

\* the list snaps in the order p
InOrder(snaps, p) == [i \in 1..Len(snaps) |-> snaps[p[i]]]

\* the arguments of calculateInsight for the snapshot at index, as a list
InsightArguments(snaps, index) ==
    IF index > 1 THEN <<snaps[index], snaps[index - 1]>> ELSE <<snaps[index]>>

CallSnapshot(date) ==
    /\ called = ""
    /\ called' = "calculateSnapshot"
    /\ given' = entries
    /\ dateSnapshot' = calculateSnapshot(entries, date)
    /\ argAfter' = ArgumentAfterRead(entries)
    /\ UNCHANGED <<entries, sel, chart, insightAt, insight, metrics, shellVars>>

CallInsight(index) ==
    /\ called = ""
    /\ called' = "calculateInsight"
    /\ given' = InsightArguments(snapshots, index)
    /\ insightAt' = index
    /\ insight' = calculateInsight(given'[1],
                      IF Len(given') > 1 THEN <<given'[2]>> ELSE <<>>)
    /\ argAfter' = [i \in 1..Len(given') |->
                       [given'[i] EXCEPT !.entries = ArgumentAfterRead(@)]]
    /\ UNCHANGED <<entries, sel, chart, metrics, dateSnapshot, shellVars>>

CallMetrics(order) ==
    /\ called = ""
    /\ called' = "calculatePortfolioMetrics"
    /\ given' = InOrder(snapshots, order)
    /\ metrics' = calculatePortfolioMetrics(given')
    /\ argAfter' = IF Len(given') < 2 THEN given' ELSE ArgumentAfterSort(given')
    /\ UNCHANGED <<entries, sel, chart, insightAt, insight, dateSnapshot, shellVars>>

CallTransform(s, order) ==
    /\ called = ""
    /\ called' = "transformSnapshots"
    /\ given' = InOrder(snapshots, order)
    /\ sel' = s
    /\ chart' = transformSnapshots(given', s.dataType, s.timeView, s.displayMode)
    /\ argAfter' = ArgumentAfterSort(given')
    /\ UNCHANGED <<entries, insightAt, insight, metrics, dateSnapshot, shellVars>>

NextCaller ==
    \/ \E date \in Dates : CallSnapshot(date)
    \/ \E index \in 1..Len(snapshots) : CallInsight(index)
    \/ \E order \in Orders(Len(snapshots)) : CallMetrics(order)
    \/ \E s \in Selectors, order \in Orders(Len(snapshots)) : CallTransform(s, order)

SpecCaller == InitCaller /\ [][NextCaller]_vars

----------------------------------------------------------------------------
(* Helpers of the properties. *)

\* the sum of the amounts of the entries of es at the indices in S
RECURSIVE SumAt(_, _)
SumAt(es, S) ==
    IF S = {} THEN 0
    ELSE LET i == CHOOSE x \in S : TRUE
         IN  es[i].amount + SumAt(es, S \ {i})

\* how many times e occurs in es
Count(es, e) == Cardinality({i \in 1..Len(es) : es[i] = e})

\* how many times e occurs in the entries of all snapshots together
RECURSIVE CountInSnapshots(_, _)
CountInSnapshots(snaps, e) ==
    IF snaps = <<>> THEN 0
    ELSE CountInSnapshots(SubSeq(snaps, 1, Len(snaps) - 1), e)
            + Count(snaps[Len(snaps)].entries, e)

LedgerDates == {entries[i].date : i \in 1..Len(entries)}

----------------------------------------------------------------------------
(* C1: for every ledger and every date d, the snapshot of d has            *)
(* totalValue = the sum of the amounts > 0 dated d, totalDebt = the sum of *)
(* |amount| over the amounts < 0 dated d, netWorth = totalValue -          *)
(* totalDebt; zero amounts count in neither and both totals are >= 0.      *)
C1_SnapshotTotals ==
    \A d \in Dates :
        LET snap == calculateSnapshot(entries, d)
            pos == {i \in 1..Len(entries) : entries[i].date = d /\ entries[i].amount > 0}
            neg == {i \in 1..Len(entries) : entries[i].date = d /\ entries[i].amount < 0}
        IN  /\ snap.totalValue = SumAt(entries, pos)
            /\ snap.totalDebt = -SumAt(entries, neg)
            /\ snap.netWorth = snap.totalValue - snap.totalDebt
            /\ snap.totalValue >= 0
            /\ snap.totalDebt >= 0

\* a date holding an asset, a liability and a zero-amount entry
C1_Witness ==
    \E d \in Dates :
        /\ \E i \in 1..Len(entries) : entries[i].date = d /\ entries[i].amount > 0
        /\ \E i \in 1..Len(entries) : entries[i].date = d /\ entries[i].amount < 0
        /\ \E i \in 1..Len(entries) : entries[i].date = d /\ entries[i].amount = 0
        /\ calculateSnapshot(entries, d).totalDebt > 0
        /\ calculateSnapshot(entries, d).totalValue > 0

(* C2: the snapshots partition the ledger: every snapshot holds only       *)
(* entries of its own date, no two snapshots share a date, and every entry *)
(* (zero amounts and duplicates included) occurs in the snapshots together *)
(* exactly as often as in the ledger.                                      *)
C2_GroupingLossless ==
    LET snaps == snapshots
        held == UNION {{snaps[k].entries[j] : j \in 1..Len(snaps[k].entries)} :
                          k \in 1..Len(snaps)}
    IN  /\ \A k \in 1..Len(snaps) :
              \A j \in 1..Len(snaps[k].entries) :
                  snaps[k].entries[j].date = snaps[k].date
        /\ \A k1, k2 \in 1..Len(snaps) :
              k1 # k2 => snaps[k1].date # snaps[k2].date
        /\ \A e \in held \cup {entries[i] : i \in 1..Len(entries)} :
              CountInSnapshots(snaps, e) = Count(entries, e)

\* a ledger out of date order with a duplicated zero-amount entry
C2_Witness ==
    /\ Len(snapshots) >= 2
    /\ \E i, j \in 1..Len(entries) :
          i < j /\ entries[i] = entries[j] /\ entries[i].amount = 0
    /\ \E i, j \in 1..Len(entries) : i < j /\ entries[i].date > entries[j].date

(* C3: after any sequence of ledger operations the snapshots are one per   *)
(* distinct ledger date in strictly ascending date order, so that each is  *)
(* the immediate predecessor of the next, and getLatestSnapshot is the     *)
(* snapshot of the greatest date (null for an empty ledger).               *)
C3_SnapshotOrder ==
    LET snaps == snapshots
        latest == getLatestSnapshot(snaps)
    IN  /\ {snaps[k].date : k \in 1..Len(snaps)} = LedgerDates
        /\ Len(snaps) = Cardinality(LedgerDates)
        /\ \A k \in 2..Len(snaps) :
              /\ snaps[k - 1].date < snaps[k].date
              /\ ~\E d \in LedgerDates : snaps[k - 1].date < d /\ d < snaps[k].date
        /\ IF entries = <<>>
           THEN latest = <<>>
           ELSE /\ latest # <<>>
                /\ latest[1].date \in LedgerDates
                /\ \A d \in LedgerDates : d <= latest[1].date

\* three dates entered latest first
C3_Witness ==
    /\ Len(snapshots) = 3
    /\ entries[1].date > entries[2].date
    /\ entries[2].date > entries[3].date

----------------------------------------------------------------------------
(* Helpers of the properties of the series. *)

\* the rational n/d, d > 0, in lowest terms
Rat(n, d) ==
    LET g == Gcd(Abs(n), d)
    IN  [n |-> n \div g, d |-> d \div g]

\* the percentage by which net worth nw differs from the base net worth
PercentOf(nw, base) ==
    IF base = 0 THEN Num(0) ELSE Rat((nw - base) * 100, Abs(base))

ChartTotals == [i \in 1..Len(chart) |-> chart[i].total]

(* C4: transformSnapshots never returns an undefined number: for every     *)
(* selector, every point's total and every per-asset value is finite (no   *)
(* NaN, no Infinity: no division by zero was evaluated).                   *)
C4_ChartFinite ==
    \A i \in 1..Len(chart) :
        /\ IsFinite(chart[i].total)
        /\ \A k \in DOMAIN chart[i].assets : IsFinite(chart[i].assets[k])

\* a percentage returns series whose baseline has net worth 0 and holds an
\* asset at balance 0 that is positive later
C4_Witness ==
    /\ sel.dataType = "returns"
    /\ sel.displayMode = "percentage"
    /\ Len(chart) >= 2
    /\ snapshots[1].netWorth = 0
    /\ snapshots[2].netWorth # 0
    /\ \E j \in 1..Len(snapshots[1].entries) :
          /\ snapshots[1].entries[j].amount = 0
          /\ snapshots[1].entries[j].investment \in DOMAIN chart[2].assets

(* C5: in the cumulative returns series every point is measured against    *)
(* the first snapshot: total = (netWorth_i - netWorth_0) / |netWorth_0| *  *)
(* 100 in percentage mode (0 when netWorth_0 = 0), netWorth_i - netWorth_0 *)
(* in absolute mode; the first total is 0; net worths 1000, 1100, 1320     *)
(* give 0, 10, 32 percent.                                                 *)
C5_CumulativeTotals ==
    (sel.dataType = "returns" /\ sel.timeView = "cumulative") =>
        LET snaps == snapshots
        IN  /\ Len(chart) = Len(snaps)
            /\ \A i \in 1..Len(chart) :
                  chart[i].total =
                      IF sel.displayMode = "percentage"
                      THEN PercentOf(snaps[i].netWorth, snaps[1].netWorth)
                      ELSE Num(snaps[i].netWorth - snaps[1].netWorth)
            /\ Len(chart) > 0 => chart[1].total = Num(0)
            /\ (entries = ScenarioLedger /\ sel.displayMode = "percentage") =>
                  ChartTotals = <<Num(0), Num(10), Num(32)>>

\* the scenario, and three snapshots whose cumulative total differs from the
\* period total
C5_Witness ==
    /\ sel = [dataType |-> "returns", timeView |-> "cumulative",
              displayMode |-> "percentage"]
    /\ Len(chart) = 3
    /\ snapshots[1].netWorth # 0
    /\ snapshots[2].netWorth # snapshots[1].netWorth
    /\ snapshots[2].netWorth # 0
    /\ chart[3].total # PercentOf(snapshots[3].netWorth, snapshots[2].netWorth)
    /\ entries # ScenarioLedger

(* C6: in the period returns series point i >= 1 is measured against       *)
(* snapshot i-1 and point 0 against itself: the total of point 0 is 0 in   *)
(* both display modes, and for i >= 1 the percentage total is (netWorth_i  *)
(* - netWorth_{i-1}) / |netWorth_{i-1}| * 100 (0 when netWorth_{i-1} = 0); *)
(* net worths 1000, 1100, 1320 give 0, 10, 20 percent.                     *)
C6_PeriodTotals ==
    (sel.dataType = "returns" /\ sel.timeView = "period") =>
        LET snaps == snapshots
        IN  /\ Len(chart) = Len(snaps)
            /\ Len(chart) > 0 => chart[1].total = Num(0)
            /\ sel.displayMode = "percentage" =>
                  \A i \in 2..Len(chart) :
                      chart[i].total =
                          PercentOf(snaps[i].netWorth, snaps[i - 1].netWorth)
            /\ (entries = ScenarioLedger /\ sel.displayMode = "percentage") =>
                  ChartTotals = <<Num(0), Num(10), Num(20)>>

\* three snapshots whose period total differs from the cumulative total
C6_Witness ==
    /\ sel = [dataType |-> "returns", timeView |-> "period",
              displayMode |-> "percentage"]
    /\ Len(chart) = 3
    /\ snapshots[1].netWorth # 0
    /\ snapshots[2].netWorth # snapshots[1].netWorth
    /\ snapshots[2].netWorth # 0
    /\ chart[3].total # PercentOf(snapshots[3].netWorth, snapshots[1].netWorth)
    /\ entries # ScenarioLedger

----------------------------------------------------------------------------
(* An asset is a name.  Where a snapshot holds several entries of one      *)
(* name, the chart keeps the value computed for the last positive one and  *)
(* looks the name up in the baseline at its first entry; with one entry    *)
(* per name these are the asset's amount and its baseline amount.          *)

NamedAt(es, name) == {i \in 1..Len(es) : es[i].investment = name}

PositiveAt(es, name) == {i \in NamedAt(es, name) : es[i].amount > 0}

PositiveNames(es) == {es[i].investment : i \in {j \in 1..Len(es) : es[j].amount > 0}}

Max(S) == CHOOSE x \in S : \A y \in S : y <= x

Min(S) == CHOOSE x \in S : \A y \in S : x <= y

\* the amount the chart takes for the asset called name
AssetAmount(es, name) == es[Max(PositiveAt(es, name))].amount

\* does the baseline hold the asset at a positive balance
HasPositiveBase(base, name) ==
    NamedAt(base, name) # {} /\ base[Min(NamedAt(base, name))].amount > 0

BaseAmount(base, name) == base[Min(NamedAt(base, name))].amount

(* C7: in the returns series a positive-amount asset whose baseline        *)
(* balance is zero, negative or absent is reported as 0 in percentage mode *)
(* and as its current amount in absolute mode; otherwise as (amount -      *)
(* baseAmount) / baseAmount * 100, or amount - baseAmount in absolute      *)
(* mode.  The baseline is the first snapshot in the cumulative view and    *)
(* the previous one (the point itself at point 0) in the period view.      *)
C7_AssetReturns ==
    sel.dataType = "returns" =>
        LET snaps == snapshots
        IN  \A i \in 1..Len(chart) :
                LET cur == snaps[i].entries
                    base == IF sel.timeView = "cumulative" THEN snaps[1].entries
                            ELSE IF i > 1 THEN snaps[i - 1].entries ELSE cur
                IN  /\ DOMAIN chart[i].assets = PositiveNames(cur)
                    /\ \A name \in PositiveNames(cur) :
                          chart[i].assets[name] =
                              IF HasPositiveBase(base, name)
                              THEN IF sel.displayMode = "absolute"
                                   THEN Num(AssetAmount(cur, name) - BaseAmount(base, name))
                                   ELSE Rat((AssetAmount(cur, name) - BaseAmount(base, name)) * 100,
                                            BaseAmount(base, name))
                              ELSE IF sel.displayMode = "absolute"
                                   THEN Num(AssetAmount(cur, name))
                                   ELSE Num(0)

\* an absolute returns series with an asset that is missing from the baseline,
\* next to one that the baseline holds
C7_Witness ==
    /\ sel.dataType = "returns"
    /\ sel.displayMode = "absolute"
    /\ Len(chart) >= 2
    /\ \E name \in DOMAIN chart[2].assets :
          /\ NamedAt(snapshots[1].entries, name) = {}
          /\ chart[2].assets[name] = Num(AssetAmount(snapshots[2].entries, name))
    /\ \E name \in DOMAIN chart[2].assets :
          /\ HasPositiveBase(snapshots[1].entries, name)
          /\ chart[2].assets[name] # Num(0)

(* C8: in the period view of the portfolio values every point after the    *)
(* first reports the change from the previous snapshot: total = netWorth_i *)
(* - netWorth_{i-1}, and for every positive-amount asset its amount less   *)
(* its amount in the previous snapshot (0 if it is absent there), so an    *)
(* asset new in snapshot i is reported at its full balance.                *)
C8_PeriodValues ==
    (sel.dataType = "portfolio" /\ sel.timeView = "period") =>
        LET snaps == snapshots
        IN  /\ Len(chart) = Len(snaps)
            /\ \A i \in 2..Len(chart) :
                  LET cur == snaps[i].entries
                      prev == snaps[i - 1].entries
                  IN  /\ chart[i].total = Num(snaps[i].netWorth - snaps[i - 1].netWorth)
                      /\ DOMAIN chart[i].assets = PositiveNames(cur)
                      /\ \A name \in PositiveNames(cur) :
                            chart[i].assets[name] =
                                Num(AssetAmount(cur, name)
                                    - (IF NamedAt(prev, name) = {} THEN 0
                                       ELSE BaseAmount(prev, name)))

\* an asset that is new in the second snapshot, next to a liability of the
\* first snapshot that has become an asset
C8_Witness ==
    /\ sel.dataType = "portfolio"
    /\ sel.timeView = "period"
    /\ Len(chart) >= 2
    /\ \E name \in DOMAIN chart[2].assets :
          /\ NamedAt(snapshots[1].entries, name) = {}
          /\ chart[2].assets[name] = Num(AssetAmount(snapshots[2].entries, name))
    /\ \E name \in DOMAIN chart[2].assets :
          /\ NamedAt(snapshots[1].entries, name) # {}
          /\ BaseAmount(snapshots[1].entries, name) < 0

(* C9: the allocation series does not depend on timeView or displayMode:   *)
(* for each of their values every point has total = 100 and gives each     *)
(* positive-amount asset amount / (sum of the positive amounts of that     *)
(* snapshot) * 100, computed from that snapshot alone.                     *)
C9_Allocation ==
    sel.dataType = "allocation" =>
        LET snaps == snapshots
        IN  /\ Len(chart) = Len(snaps)
            /\ \A i \in 1..Len(chart) :
                  LET cur == snaps[i].entries
                      pos == {j \in 1..Len(cur) : cur[j].amount > 0}
                  IN  /\ chart[i].total = Num(100)
                      /\ DOMAIN chart[i].assets = PositiveNames(cur)
                      /\ \A name \in PositiveNames(cur) :
                            chart[i].assets[name] =
                                Rat(AssetAmount(cur, name) * 100, SumAt(cur, pos))

\* the period view in absolute mode: two snapshots of different totals, the
\* second with two assets and a share that is no whole percentage
C9_Witness ==
    /\ sel = [dataType |-> "allocation", timeView |-> "period",
              displayMode |-> "absolute"]
    /\ Len(chart) >= 2
    /\ snapshots[1].totalValue > 0
    /\ snapshots[1].totalValue # snapshots[2].totalValue
    /\ Cardinality(DOMAIN chart[2].assets) = 2
    /\ \E name \in DOMAIN chart[2].assets : chart[2].assets[name].d > 1

\* the sum of the values of an allocation map
RECURSIVE SumValues(_)
SumValues(m) ==
    IF DOMAIN m = {} THEN Num(0)
    ELSE LET k == CHOOSE x \in DOMAIN m : TRUE
         IN  JsAdd(m[k], SumValues([j \in (DOMAIN m) \ {k} |-> m[j]]))

\* what C10 says of the allocation map m of the snapshot snap
AllocationMapClaim(m, snap) ==
    /\ DOMAIN m = PositiveNames(snap.entries)
    /\ \A k \in DOMAIN m : IsFinite(m[k])
    /\ PositiveNames(snap.entries) # {} => SumValues(m) = Num(100)
    /\ snap.totalValue = 0 => \A k \in DOMAIN m : m[k] = Num(0)

(* C10: in every allocation map (the insight's and each point's of the     *)
(* allocation series) the keys are exactly the names of the snapshot's     *)
(* positive-amount entries, no liability appears, the values sum to        *)
(* exactly 100 whenever the snapshot has a positive asset, and every value *)
(* is 0, not NaN or Infinity, when totalValue is 0.                        *)
C10_AllocationMaps ==
    LET snaps == snapshots
    IN  /\ sel.dataType = "allocation" =>
              \A i \in 1..Len(chart) : AllocationMapClaim(chart[i].assets, snaps[i])
        /\ insightAt > 0 => AllocationMapClaim(insight.allocation, snaps[insightAt])

----------------------------------------------------------------------------
(* Helpers of the properties of the insight. *)

\* x <= y for rationals in lowest terms
RatLeq(x, y) == x.n * y.d <= y.n * x.d

\* the entries of the snapshot the insight was computed for, and of the one
\* before it (none for the first snapshot)
InsightCurrent == snapshots[insightAt].entries

InsightPrevious == IF insightAt > 1 THEN snapshots[insightAt - 1].entries ELSE <<>>

\* the positive entries of cur whose asset prev holds at a non-zero amount
DefinedAt(cur, prev) ==
    {j \in 1..Len(cur) :
        /\ cur[j].amount > 0
        /\ NamedAt(prev, cur[j].investment) # {}
        /\ BaseAmount(prev, cur[j].investment) # 0}

\* (current - previous) / |previous| in percent, for j in DefinedAt(cur, prev)
ActualReturnAt(cur, prev, j) ==
    Rat((cur[j].amount - BaseAmount(prev, cur[j].investment)) * 100,
        Abs(BaseAmount(prev, cur[j].investment)))

\* the names of cur that prev lacks or holds at amount 0
UndefinedNames(cur, prev) ==
    {cur[j].investment : j \in {i \in 1..Len(cur) :
        \/ NamedAt(prev, cur[i].investment) = {}
        \/ BaseAmount(prev, cur[i].investment) = 0}}

(* C11: when some positive-amount asset of the current snapshot has a      *)
(* defined actual return (the previous snapshot holds it at a non-zero     *)
(* amount), topPerformer is such an asset with the maximum of the defined  *)
(* returns (current - previous) / |previous| and underperformer one with   *)
(* the minimum; an asset that the previous snapshot lacks or holds at 0 is *)
(* never named as either.                                                  *)
C11_Performers ==
    insightAt > 0 =>
        LET cur == InsightCurrent
            prev == InsightPrevious
            D == DefinedAt(cur, prev)
        IN  /\ insight.topPerformer.name \notin UndefinedNames(cur, prev)
            /\ insight.underperformer.name \notin UndefinedNames(cur, prev)
            /\ D # {} =>
                  /\ \E j \in D :
                        /\ insight.topPerformer.name = cur[j].investment
                        /\ insight.topPerformer.growth = ActualReturnAt(cur, prev, j)
                  /\ \E j \in D :
                        /\ insight.underperformer.name = cur[j].investment
                        /\ insight.underperformer.growth = ActualReturnAt(cur, prev, j)
                  /\ \A j \in D :
                        /\ RatLeq(ActualReturnAt(cur, prev, j), insight.topPerformer.growth)
                        /\ RatLeq(insight.underperformer.growth, ActualReturnAt(cur, prev, j))

\* an asset that lost value is both performers, next to an asset that is new
C11_Witness ==
    /\ insightAt > 1
    /\ DefinedAt(InsightCurrent, InsightPrevious) # {}
    /\ insight.topPerformer.growth.n < 0
    /\ \E j \in 1..Len(InsightCurrent) :
          /\ InsightCurrent[j].amount > 0
          /\ NamedAt(InsightPrevious, InsightCurrent[j].investment) = {}

(* C12: when no positive-amount asset of the current snapshot has a        *)
(* defined actual return, topPerformer and underperformer are both the     *)
(* placeholder with the empty name and growth 0.                           *)
C12_Placeholder ==
    (insightAt > 0 /\ DefinedAt(InsightCurrent, InsightPrevious) = {}) =>
        /\ insight.topPerformer = [name |-> "", growth |-> Num(0)]
        /\ insight.underperformer = [name |-> "", growth |-> Num(0)]

(* C13: monthlyChange is (netWorth - previous netWorth) / |previous        *)
(* netWorth| * 100: 0 without a previous snapshot, 0 when the previous net *)
(* worth is 0, and positive exactly when net worth rose.                   *)
C13_MonthlyChange ==
    insightAt > 0 =>
        LET snaps == snapshots
        IN  /\ insightAt = 1 => insight.monthlyChange = Num(0)
            /\ insightAt > 1 =>
                  /\ insight.monthlyChange =
                        PercentOf(snaps[insightAt].netWorth, snaps[insightAt - 1].netWorth)
                  /\ snaps[insightAt - 1].netWorth # 0 =>
                        (insight.monthlyChange.n > 0
                            <=> snaps[insightAt].netWorth > snaps[insightAt - 1].netWorth)

----------------------------------------------------------------------------
(* Helpers of the properties of the metrics.  snapshots is the list in     *)
(* ascending date order, whatever order the caller handed it over in.      *)

MetricsCalled == called = "calculatePortfolioMetrics"

\* the return of snapshot i over snapshot i - 1, in percent
PeriodReturn(snaps, i) == PercentOf(snaps[i].netWorth, snaps[i - 1].netWorth)

\* the greatest net worth among the first k snapshots
PeakAt(snaps, k) == Max({snaps[i].netWorth : i \in 1..k})

\* the rational n/d for any d # 0
Ratio(n, d) == IF d < 0 THEN Rat(-n, -d) ELSE Rat(n, d)

\* the drawdown of snapshot k from the peak so far, in percent
DrawdownAt(snaps, k) ==
    IF PeakAt(snaps, k) = 0 THEN Num(0)
    ELSE Ratio((PeakAt(snaps, k) - snaps[k].netWorth) * 100, PeakAt(snaps, k))

(* C14: calculatePortfolioMetrics of an empty list or of one snapshot      *)
(* returns totalReturn, totalReturnPercentage, monthlyGrowthRate,          *)
(* volatility, sharpeRatio and maxDrawdown 0 and bestMonth and worstMonth  *)
(* {date: '', return: 0}.                                                  *)
C14_NoData ==
    (MetricsCalled /\ Len(given) < 2) =>
        /\ metrics.totalReturn = Num(0)
        /\ metrics.totalReturnPercentage = Num(0)
        /\ metrics.monthlyGrowthRate = Num(0)
        /\ metrics.volatility = Num(0)
        /\ metrics.sharpeRatio = Num(0)
        /\ metrics.maxDrawdown = Num(0)
        /\ metrics.bestMonth = [date |-> NoDate, return |-> Num(0)]
        /\ metrics.worstMonth = [date |-> NoDate, return |-> Num(0)]

\* the metrics of a single snapshot that has a net worth
C14_Witness ==
    /\ MetricsCalled
    /\ Len(given) = 1
    /\ given[1].netWorth # 0

(* C15: for two or more snapshots of which the first (by date) has a net   *)
(* worth of 0 or less, monthlyGrowthRate is 0.                             *)
C15_GrowthRateZero ==
    (MetricsCalled /\ Len(given) >= 2 /\ snapshots[1].netWorth <= 0) =>
        metrics.monthlyGrowthRate = Num(0)

(* C16: bestMonth is the maximum and worstMonth the minimum of the period  *)
(* returns, the return of snapshot i being measured against snapshot i-1   *)
(* and dated with snapshot i; of several periods with the extreme value    *)
(* the earliest is reported.                                               *)
C16_BestWorstMonth ==
    (MetricsCalled /\ Len(given) >= 2) =>
        LET snaps == snapshots
            periods == 2..Len(snaps)
            best == Min({i \in periods : \A j \in periods :
                            RatLeq(PeriodReturn(snaps, j), PeriodReturn(snaps, i))})
            worst == Min({i \in periods : \A j \in periods :
                            RatLeq(PeriodReturn(snaps, i), PeriodReturn(snaps, j))})
        IN  /\ metrics.bestMonth =
                  [date |-> snaps[best].date, return |-> PeriodReturn(snaps, best)]
            /\ metrics.worstMonth =
                  [date |-> snaps[worst].date, return |-> PeriodReturn(snaps, worst)]

\* two periods of equal return, handed over latest first
C16_Witness ==
    /\ MetricsCalled
    /\ Len(given) = 3
    /\ given[1].date > given[2].date
    /\ PeriodReturn(snapshots, 2) = PeriodReturn(snapshots, 3)
    /\ metrics.bestMonth.date = snapshots[2].date
    /\ metrics.worstMonth.date = snapshots[2].date

(* C17: maxDrawdown is the maximum over the snapshots in date order of     *)
(* (peak - netWorth) / peak * 100, peak being the greatest net worth up to *)
(* and including the snapshot and the drawdown 0 when peak is 0; it is     *)
(* never negative, and 0 when net worth never decreases.                   *)
C17_MaxDrawdown ==
    (MetricsCalled /\ Len(given) >= 2) =>
        LET snaps == snapshots
        IN  /\ \E k \in 1..Len(snaps) : metrics.maxDrawdown = DrawdownAt(snaps, k)
            /\ \A k \in 1..Len(snaps) : RatLeq(DrawdownAt(snaps, k), metrics.maxDrawdown)
            /\ metrics.maxDrawdown.n >= 0
            /\ (\A k \in 2..Len(snaps) : snaps[k - 1].netWorth <= snaps[k].netWorth) =>
                  metrics.maxDrawdown = Num(0)

\* a rise to a peak and a fall from it
C17_Witness ==
    /\ MetricsCalled
    /\ Len(given) = 3
    /\ snapshots[1].netWorth < snapshots[2].netWorth
    /\ snapshots[3].netWorth < snapshots[2].netWorth
    /\ metrics.maxDrawdown.n > 0

----------------------------------------------------------------------------
(* Properties of the engine under any caller. *)

TransformCalled == called = "transformSnapshots"

(* C18: for a list of snapshots of distinct dates handed over in any       *)
(* order, calculatePortfolioMetrics and transformSnapshots return what     *)
(* they return for the list in ascending date order.                       *)
C18_OrderIndependent ==
    LET snaps == snapshots
    IN  /\ \A i, j \in 1..Len(snaps) : i < j => snaps[i].date < snaps[j].date
        /\ TransformCalled =>
              chart = transformSnapshots(snaps, sel.dataType, sel.timeView, sel.displayMode)
        /\ MetricsCalled => metrics = calculatePortfolioMetrics(snaps)

\* a returns series of three snapshots handed over latest first, in which
\* the order of the snapshots matters
C18_Witness ==
    /\ TransformCalled
    /\ sel.dataType = "returns"
    /\ sel.timeView = "period"
    /\ Len(given) = 3
    /\ given[1].date > given[2].date
    /\ given[2].date > given[3].date
    /\ chart[2].total # Num(0)
    /\ chart[3].total # chart[2].total

C20_EmptySeries ==
    (sel # NoSel /\ snapshots = <<>>) => chart = <<>>

\* the allocation series of the empty ledger
C20_Witness ==
    /\ entries = <<>>
    /\ sel.dataType = "allocation"
    /\ sel.displayMode = "absolute"
    /\ chart = <<>>

----------------------------------------------------------------------------
(* Properties of the ledger under the operations of the views. *)

(* C21: after any sequence of manual saves, CSV imports (merge or replace) *)
(* and the other ledger operations, the ledger holds at most one entry for *)
(* each (date, investment) pair.                                           *)
C21_NoDuplicates ==
    \A i, j \in 1..Len(entries) :
        (entries[i].date = entries[j].date
            /\ entries[i].investment = entries[j].investment) => i = j

----------------------------------------------------------------------------
(* The line chart of the period view plots running sums of the series.     *)

\* AccumulateTotals plotting the point's own total
AccumulateTotalsOwn(points, index) == points[index].total

\* LineChart: data.slice(0, index + 1).reduce((sum, m) => sum + m.total, 0)
RECURSIVE AccumulateTotals(_, _)
AccumulateTotals(points, index) ==
    IF index = 0 THEN Num(0)
    ELSE JsAdd(AccumulateTotals(points, index - 1), points[index].total)

(* C30: in the returns series with displayMode = absolute the period       *)
(* totals telescope: for every index i the sum of the period-view totals   *)
(* of points 0..i equals the cumulative-view total of point i, and both    *)
(* equal netWorth_i - netWorth_0.                                          *)
C30_PeriodTelescopes ==
    (sel = [dataType |-> "returns", timeView |-> "period",
            displayMode |-> "absolute"]) =>
        LET snaps == snapshots
            cumulative == transformSnapshots(snaps, "returns", "cumulative", "absolute")
        IN  /\ Len(cumulative) = Len(chart)
            /\ \A i \in 1..Len(chart) :
                  /\ AccumulateTotals(chart, i) = cumulative[i].total
                  /\ AccumulateTotals(chart, i) =
                        Num(snaps[i].netWorth - snaps[1].netWorth)

\* three snapshots whose last period total is not the cumulative one
C30_Witness ==
    /\ sel = [dataType |-> "returns", timeView |-> "period",
              displayMode |-> "absolute"]
    /\ Len(chart) = 3
    /\ chart[2].total # Num(0)
    /\ chart[3].total # Num(0)
    /\ chart[3].total # Num(snapshots[3].netWorth - snapshots[1].netWorth)

----------------------------------------------------------------------------
(* The app context with its storage: the operations of AppProvider on the  *)
(* app data { entries, ui }, each saving what it made.  Amounts and rates  *)
(* are JavaScript numbers here.                                            *)

ShellDates == {20240131, 20240229}
ShellAmounts == {Num(1), Num(2)}
ShellRates == {Num(5)}

\* the entries the Add Entry form makes
ShellEntry ==
    [date : ShellDates, investment : Names, amount : {Num(1)}, rate : ShellRates]

\* an entry parseCSVFile makes of a row whose Amount reads 1e999
OverflowEntry ==
    [date |-> 20240229, investment |-> "B", amount |-> Infinity, rate |-> Num(5)]

\* an entry parseCSVFile makes of a row whose Amount reads 1
ParsedEntry ==
    [date |-> 20240131, investment |-> "A", amount |-> Num(1), rate |-> Num(5)]

\* the rows of the imports that succeed
ImportedRows == {<<ParsedEntry>>, <<OverflowEntry>>}

ViewModes == {"overview", "snapshot"}

data == [entries |-> entries, ui |-> ui]

\* the updates the views hand to updateUI
UIUpdates ==
    {[selectedDate |-> <<entries[i].date>>] : i \in 1..Len(entries)}
        \cup {[viewMode |-> v] : v \in ViewModes}

\* setData(prev => { const next = ...; AppStorage.save(next); return next })
SetData(next) ==
    /\ entries' = next.entries
    /\ ui' = next.ui
    /\ storage' = save(storage, next)

Did(name, key) == [name |-> name, key |-> key]

ContextUpdateData(updates) ==
    /\ SetData(Spread(data, updates))
    /\ op' = Did("updateData", <<>>)
    /\ UNCHANGED <<engineVars, importVars, toastVars>>

ContextUpdateUI(updates) ==
    /\ SetData([data EXCEPT !.ui = Spread(data.ui, updates)])
    /\ op' = Did("updateUI", <<>>)
    /\ UNCHANGED <<engineVars, importVars, toastVars>>

ContextAddEntry(entry) ==
    /\ SetData([data EXCEPT !.entries = addEntry(data.entries, entry)])
    /\ op' = Did("addEntry", <<entry.date, entry.investment>>)
    /\ UNCHANGED <<engineVars, importVars, toastVars>>

ContextUpdateEntry(oldEntry, newEntry) ==
    /\ SetData([data EXCEPT !.entries = updateEntry(data.entries, oldEntry, newEntry)])
    /\ op' = Did("updateEntry", <<oldEntry.date, oldEntry.investment>>)
    /\ UNCHANGED <<engineVars, importVars, toastVars>>

\* Snapshot.saveEdit: updateEntry(editingEntry, { ...editingEntry, amount, rate })
ContextSaveEdit(i, amount, rate) ==
    ContextUpdateEntry(entries[i], [entries[i] EXCEPT !.amount = amount, !.rate = rate])

ContextDeleteEntry(date, investment) ==
    /\ SetData([data EXCEPT !.entries = deleteEntry(data.entries, date, investment)])
    /\ op' = Did("deleteEntry", <<date, investment>>)
    /\ UNCHANGED <<engineVars, importVars, toastVars>>

\* AppStorage.clear(); setData(AppStorage.load())
ContextClearData ==
    /\ storage' = clear(storage)
    /\ entries' = load(storage').entries
    /\ ui' = load(storage').ui
    /\ op' = Did("clearData", <<>>)
    /\ UNCHANGED <<engineVars, importVars, toastVars>>

InitContext ==
    /\ entries = <<>>
    /\ sel = NoSel
    /\ chart = <<>>
    /\ insightAt = 0
    /\ insight = NoInsight
    /\ NoCall
    /\ NoShell

NextContext ==
    \/ \E entry \in ShellEntry :
          Len(entries) < MaxEntries /\ ContextAddEntry(entry)
    \/ \E i \in 1..Len(entries), amount \in ShellAmounts, rate \in ShellRates :
          ContextSaveEdit(i, amount, rate)
    \/ \E date \in ShellDates, investment \in Names :
          ContextDeleteEntry(date, investment)
    \/ \E updates \in UIUpdates : ContextUpdateUI(updates)
    \/ \E rows \in ImportedRows, mode \in {"replace", "merge"} :
          /\ Len(importEntries(entries, rows, mode)) <= MaxEntries
          /\ ContextUpdateData([entries |-> importEntries(entries, rows, mode)])
    \/ ContextClearData

SpecContext == InitContext /\ [][NextContext]_vars

(* C22: after every state-changing operation of the app context, in any    *)
(* order, the data AppStorage.load() would return from local storage       *)
(* equals the app data in memory (entries and ui).                         *)
C22_StorageIsMemory == load(storage) = data

\* the entry e has the key (date, investment)
HasKey(e, date, investment) == e.date = date /\ e.investment = investment

(* C27: updateEntry(old, new) and deleteEntry(date, investment) change     *)
(* only the entries whose (date, investment) is the given key: every other *)
(* entry is unchanged and keeps its place among the others, and the ui     *)
(* part of the app data is unchanged.                                      *)
C27_OnlyTheKey ==
    [][/\ (op'.name \in {"updateEntry", "deleteEntry"}) => ui' = ui
       /\ op'.name = "updateEntry" =>
             /\ Len(entries') = Len(entries)
             /\ \A i \in 1..Len(entries) :
                   ~HasKey(entries[i], op'.key[1], op'.key[2]) =>
                       entries'[i] = entries[i]
       /\ op'.name = "deleteEntry" =>
             /\ entries' = SelectSeq(entries,
                               LAMBDA e : ~HasKey(e, op'.key[1], op'.key[2]))
             /\ \A i \in 1..Len(entries') :
                   ~HasKey(entries'[i], op'.key[1], op'.key[2])]_vars

\* a delete that left two entries of other keys, under a changed ui
C27_Witness ==
    /\ op.name = "deleteEntry"
    /\ Len(entries) >= 2
    /\ \E i \in 1..Len(entries) : entries[i].date = op.key[1]
    /\ \E i \in 1..Len(entries) : entries[i].investment = op.key[2]
    /\ ui.selectedDate # <<>>
    /\ ui.viewMode = "snapshot"

----------------------------------------------------------------------------
(* ToastProvider and ToastContainer: the toasts, their timers and their    *)
(* buttons.  The id of a toast is Date.now().toString(), which is one to   *)
(* one on the clock readings: the reading stands for it.  A toast carries  *)
(* its number of creation (uid), the time its duration ends (due) and, in  *)
(* the Undo action, the ledger before and after the delete; the code has   *)
(* none of these, they are history for the properties.                     *)

TOAST_DURATION == 3000

MaxToasts == 2
MaxTicks == 2

\* the clock readings: the clock is read every TOAST_DURATION milliseconds
ClockStep == TOAST_DURATION
MaxClock == MaxTicks * ClockStep

NoAction == <<>>

\* duration = action ? TOAST_DURATION * 2 : TOAST_DURATION
Duration(action) == IF action # NoAction THEN TOAST_DURATION * 2 ELSE TOAST_DURATION

\* prev.filter(t => t.id !== id)
WithoutId(list, id) == SelectSeq(list, LAMBDA t : t.id # id)

\* toast(message, type, action): the new toast and its setTimeout
Toast(action) ==
    /\ Len(timers) < MaxToasts
    /\ now + Duration(action) <= MaxClock
    /\ toasts' = Append(toasts, [id |-> now, action |-> action,
                                  uid |-> Len(timers) + 1,
                                  due |-> now + Duration(action)])
    /\ timers' = Append(timers, [id |-> now, due |-> now + Duration(action),
                                  fired |-> FALSE])
    /\ now' = now

\* DataControls.handleExport: toast(message, 'success')
HandleExport ==
    /\ Toast(NoAction)
    /\ op' = Did("handleExport", <<>>)
    /\ UNCHANGED <<entries, ui, storage, engineVars, importVars>>

\* Snapshot.handleDelete for the entry at index i of the ledger
HandleDelete(i) ==
    LET entry == entries[i]
        backup == entry
    IN  /\ SetData([data EXCEPT
                        !.entries = deleteEntry(data.entries, entry.date, entry.investment)])
        /\ Toast(<<[backup |-> backup, before |-> entries, after |-> entries']>>)
        /\ op' = Did("handleDelete", <<entry.date, entry.investment>>)
        /\ UNCHANGED <<engineVars, importVars>>

\* the action button of the toast at index k: toast.action.handler(), which
\* is addEntry(backup), then onDismiss(toast.id)
ActionButton(k) ==
    /\ toasts[k].action # NoAction
    /\ SetData([data EXCEPT
                    !.entries = addEntry(data.entries, toasts[k].action[1].backup)])
    /\ toasts' = WithoutId(toasts, toasts[k].id)
    /\ op' = Did("action", <<toasts[k].uid>>)
    /\ UNCHANGED <<timers, now, engineVars, importVars>>

\* the close button of the toast at index k: onDismiss(toast.id)
CloseButton(k) ==
    /\ toasts' = WithoutId(toasts, toasts[k].id)
    /\ op' = Did("dismiss", <<toasts[k].uid>>)
    /\ UNCHANGED <<entries, ui, storage, timers, now, engineVars, importVars>>

\* the timer j is the next the event loop runs: it is due and no timer not
\* yet run is due earlier, or as early and set earlier
NextTimer(j) ==
    /\ ~timers[j].fired
    /\ timers[j].due <= now
    /\ \A i \in 1..Len(timers) :
          ~timers[i].fired =>
              \/ timers[i].due > timers[j].due
              \/ timers[i].due = timers[j].due /\ i >= j

\* the setTimeout callback of toast j: setToasts(prev => prev.filter(...))
Timer(j) ==
    /\ NextTimer(j)
    /\ toasts' = WithoutId(toasts, timers[j].id)
    /\ timers' = [timers EXCEPT ![j].fired = TRUE]
    /\ op' = Did("timer", <<j>>)
    /\ UNCHANGED <<entries, ui, storage, now, engineVars, importVars>>

\* Date.now() reads ClockStep more
Tick ==
    /\ now + ClockStep <= MaxClock
    /\ now' = now + ClockStep
    /\ op' = Did("tick", <<>>)
    /\ UNCHANGED <<entries, ui, storage, toasts, timers, engineVars, importVars>>

\* the entries of one date
ToastEntry == {e \in ShellEntry : e.date = 20240131}

InitToast == InitContext

RunTimers == \E j \in 1..Len(timers) : Timer(j)

NextToast ==
    \/ \E entry \in ToastEntry :
          Len(entries) < MaxEntries /\ ContextAddEntry(entry)
    \/ HandleExport
    \/ \E i \in 1..Len(entries) : HandleDelete(i)
    \/ \E k \in 1..Len(toasts) : ActionButton(k)
    \/ \E k \in 1..Len(toasts) : CloseButton(k)
    \/ RunTimers
    \/ Tick

SpecToast == InitToast /\ [][NextToast]_vars

\* the clock goes on and the event loop runs the timers that are due
SpecToastFair == SpecToast /\ WF_vars(Tick) /\ WF_vars(RunTimers)

\* the toast of number uid is in the list
Shown(uid) == \E k \in 1..Len(toasts) : toasts[k].uid = uid

\* the step is the user's dismissal of the toast of number uid
UserDismisses(uid) == op'.name \in {"dismiss", "action"} /\ op'.key = <<uid>>

(* C24: every toast added by toast(...) is eventually removed from the     *)
(* list without any user action, once its duration (TOAST_DURATION,        *)
(* doubled for a toast that carries an action) has elapsed, and it is not  *)
(* removed before that unless the user dismisses it.                       *)
C24_AutoDismiss ==
    /\ \A uid \in 1..MaxToasts : Shown(uid) ~> ~Shown(uid)
    /\ [][\A k \in 1..Len(toasts) :
             ~(\E j \in 1..Len(toasts') : toasts'[j].uid = toasts[k].uid) =>
                 \/ now' >= toasts[k].due
                 \/ UserDismisses(toasts[k].uid)]_vars

(* C28: dismissing a toast by its close button, its action button or its   *)
(* timer removes exactly that toast: every other toast stays in the list,  *)
(* also when two toasts were created at the same clock reading.            *)
C28_ExactlyThatToast ==
    [][(op'.name \in {"dismiss", "action", "timer"}) =>
          toasts' = SelectSeq(toasts, LAMBDA t : t.uid # op'.key[1])]_vars

\* e occurs in es as often as in fs
SameCount(es, fs, e) ==
    Cardinality({i \in 1..Len(es) : es[i] = e}) =
        Cardinality({i \in 1..Len(fs) : fs[i] = e})

\* es and fs hold the same multiset of entries
SameEntries(es, fs) ==
    /\ Len(es) = Len(fs)
    /\ \A i \in 1..Len(es) : SameCount(es, fs, es[i])

(* C26: delete followed by Undo is a round trip: after handleDelete(e) and *)
(* then the Undo action of its toast the ledger holds the same multiset of *)
(* entries as before the delete.                                           *)
C26_UndoRoundTrip ==
    [][op'.name = "action" =>
          \A k \in 1..Len(toasts) :
              (toasts[k].uid = op'.key[1] /\ entries = toasts[k].action[1].after) =>
                  SameEntries(entries', toasts[k].action[1].before)]_vars

----------------------------------------------------------------------------
(* utils/csv.ts and hooks/useDataImport.ts: the import of a CSV file.  A   *)
(* file is the rows Papa.parse reads from it, each row the texts of its    *)
(* four columns (<<>> for a column the file does not have).  importCSV     *)
(* reads data.entries of the render it was made in, waits for the parse,   *)
(* and then hands the new entries to updateData.                           *)

\* result.errors.slice(0, 5): the 5 that constants/index.ts names MAX_IMPORT_ERRORS
MAX_IMPORT_ERRORS == 5

MaxRows == 6

\* parseFloat of the texts of the model
parseFloat(text) ==
    CASE text = "1" -> Num(1)
      [] text = "2" -> Num(2)
      [] text = "5" -> Num(5)
      [] text = "1e999" -> Infinity
      [] OTHER -> NaN

isNaN(x) == x = NaN

\* the dates the texts matching /^\d{4}-\d{2}-\d{2}$/ spell
DateTexts == [t \in {"2024-01-31", "2024-02-29"} |->
                 IF t = "2024-01-31" THEN 20240131 ELSE 20240229]

GoodRow == [Date |-> "2024-01-31", Investment |-> "A", Amount |-> "1", Rate |-> <<"5">>]
OverflowRow == [Date |-> "2024-02-29", Investment |-> "B", Amount |-> "1e999", Rate |-> <<"5">>]
BadAmountRow == [GoodRow EXCEPT !.Amount = "abc"]
BadRateRow == [GoodRow EXCEPT !.Rate = <<"">>]
BadDateRow == [GoodRow EXCEPT !.Date = "01/31/2024"]
NoRateRow == [GoodRow EXCEPT !.Rate = <<>>]
NoInvestmentRow == [GoodRow EXCEPT !.Investment = ""]

CsvRows == {GoodRow, OverflowRow, BadAmountRow, BadRateRow, BadDateRow,
            NoRateRow, NoInvestmentRow}

\* the files: every file of up to two rows, and the files of up to MaxRows
\* rows of whom only the last, or none, is valid
CsvFiles ==
    UNION {[1..n -> CsvRows] : n \in 0..2}
        \cup {[i \in 1..n |-> IF i = n THEN last ELSE BadAmountRow] :
                 n \in 3..MaxRows, last \in {GoodRow, BadDateRow}}

\* the error parseCSVFile reports for the row of index i (0 based), <<>> if none
RowError(row, index) ==
    IF row.Date = "" \/ row.Investment = "" \/ row.Amount = "" \/ row.Rate = <<>>
    THEN <<[line |-> index + 2, error |-> "Missing required fields"]>>
    ELSE IF isNaN(parseFloat(row.Amount))
    THEN <<[line |-> index + 2, error |-> "Invalid amount"]>>
    ELSE IF isNaN(parseFloat(row.Rate[1]))
    THEN <<[line |-> index + 2, error |-> "Invalid rate"]>>
    ELSE IF row.Date \notin DOMAIN DateTexts
    THEN <<[line |-> index + 2, error |-> "Invalid date format"]>>
    ELSE <<>>

\* the entry parseCSVFile pushes for a valid row
RowEntry(row) ==
    [date |-> DateTexts[row.Date], investment |-> row.Investment,
     amount |-> parseFloat(row.Amount), rate |-> parseFloat(row.Rate[1])]

\* parseCSVFile: { data, errors }
RECURSIVE parseCSVFile(_)
parseCSVFile(file) ==
    IF file = <<>> THEN [data |-> <<>>, errors |-> <<>>]
    ELSE LET rest == parseCSVFile(SubSeq(file, 1, Len(file) - 1))
             row == file[Len(file)]
             error == RowError(row, Len(file) - 1)
         IN  IF error # <<>>
             THEN [rest EXCEPT !.errors = rest.errors \o error]
             ELSE [rest EXCEPT !.data = Append(rest.data, RowEntry(row))]

\* errors.slice(0, 5) keeping every error
SliceErrorsAll(errors) == errors

\* result.errors.slice(0, 5)
SliceErrors(errors) ==
    SubSeq(errors, 1, IF Len(errors) < MAX_IMPORT_ERRORS THEN Len(errors)
                      ELSE MAX_IMPORT_ERRORS)

\* what importCSV returns for the parse result and whether it calls updateData
ImportResult(result) ==
    IF Len(result.errors) > 0
    THEN [success |-> FALSE, errors |-> SliceErrors(result.errors), count |-> 0,
          data |-> <<>>]
    ELSE IF Len(result.data) = 0
    THEN [success |-> FALSE,
          errors |-> <<[line |-> 0, error |-> "No valid data found in CSV file"]>>,
          count |-> 0, data |-> <<>>]
    ELSE [success |-> TRUE, errors |-> <<>>, count |-> Len(result.data),
          data |-> result.data]

\* importCSV(file, mode) up to await parseCSVFile(file): the call holds the
\* data of the render that made it
StartImport(file, mode) ==
    /\ pending = <<>>
    /\ importResult = <<>>
    /\ pending' = <<[file |-> file, mode |-> mode, data |-> data]>>
    /\ op' = Did("importCSV", <<>>)
    /\ UNCHANGED <<entries, ui, storage, importResult, engineVars, toastVars>>

\* importCSV from the end of the parse to its return
FinishImport ==
    /\ pending # <<>>
    /\ LET call == pending[1]
           result == parseCSVFile(call.file)
           returned == ImportResult(result)
       IN  /\ importResult' = <<returned>>
           /\ op' = Did("parsed", <<Len(result.errors), Len(result.data)>>)
           /\ IF returned.success
              THEN SetData(Spread(data,
                       [entries |-> importEntries(call.data.entries, result.data,
                                                  call.mode)]))
              ELSE UNCHANGED <<entries, ui, storage>>
    /\ pending' = <<>>
    /\ UNCHANGED <<engineVars, toastVars>>

InitImport == InitContext

NextImport ==
    \/ \E entry \in ToastEntry :
          Len(entries) < MaxEntries /\ ContextAddEntry(entry)
    \/ \E i \in 1..Len(entries) :
          ContextDeleteEntry(entries[i].date, entries[i].investment)
    \/ \E file \in CsvFiles, mode \in {"replace", "merge"} : StartImport(file, mode)
    \/ FinishImport

SpecImport == InitImport /\ [][NextImport]_vars

(* C23: CSV import is all-or-nothing: importCSV changes the ledger only    *)
(* when the parse reports no error and yields at least one row; otherwise  *)
(* it returns success = false with at most 5 error messages, and the       *)
(* ledger in memory and in storage is what it was before.                  *)
C23_AllOrNothing ==
    [][op'.name = "parsed" =>
          LET returned == importResult'[1]
              clean == op'.key[1] = 0 /\ op'.key[2] > 0
          IN  /\ returned.success <=> clean
              /\ ~clean =>
                    /\ entries' = entries
                    /\ storage' = storage
                    /\ Len(returned.errors) >= 1
                    /\ Len(returned.errors) <= 5
              /\ (op'.key[1] > 0 /\ op'.key[1] <= 5) =>
                    Len(returned.errors) = op'.key[1]]_vars

\* a file of six invalid rows, refused with five messages on a ledger that
\* holds an entry
C23_Witness ==
    /\ op.name = "parsed"
    /\ op.key[1] > 5
    /\ importResult # <<>>
    /\ ~importResult[1].success
    /\ Len(importResult[1].errors) = 5
    /\ entries # <<>>

(* C25: a merge import that succeeds loses no update of the ledger: the    *)
(* resulting ledger is the ledger at the moment the import's update is     *)
(* applied followed by the imported rows, also when addEntry, updateEntry  *)
(* or deleteEntry ran between the start of the import and the end of the   *)
(* parse.                                                                  *)
C25_MergeKeepsUpdates ==
    [][(op'.name = "parsed" /\ importResult'[1].success /\ pending[1].mode = "merge") =>
          entries' = entries \o importResult'[1].data]_vars

----------------------------------------------------------------------------
(* components/views/Snapshot.tsx: the date the Snapshot view shows.  React *)
(* runs the pending effect of a render before it handles the next event   *)
(* of the user, so no operation of the user comes between a render that    *)
(* finds the stored date missing and the effect that replaces it.          *)

\* the entries of the ledgers of the view: one asset on the dates of the model
ViewEntry == [date : Dates, investment : {"A"}, amount : {Num(1)}, rate : ShellRates]

\* getAvailableDates(): the dates of the snapshots, which are the dates of the
\* entries, the latest first: the date at index i has i - 1 later dates
availableDates ==
    LET ds == {entries[i].date : i \in 1..Len(entries)}
    IN  [i \in 1..Cardinality(ds) |->
            CHOOSE d \in ds : Cardinality({e \in ds : e > d}) = i - 1]

Includes(list, x) == \E i \in 1..Len(list) : list[i] = x

\* currentDate showing the stored date as it is
currentDateStored(selectedDate, dates) ==
    IF selectedDate # <<>> THEN selectedDate
    ELSE IF Len(dates) > 0 THEN <<dates[1]>> ELSE <<>>

\* validSelectedDate || (availableDates.length > 0 ? availableDates[0] : null)
currentDate(selectedDate, dates) ==
    LET validSelectedDate ==
            IF selectedDate # <<>> /\ Includes(dates, selectedDate[1])
            THEN selectedDate ELSE <<>>
    IN  IF validSelectedDate # <<>> THEN validSelectedDate
        ELSE IF Len(dates) > 0 THEN <<dates[1]>> ELSE <<>>

\* the condition of the effect of the Snapshot view, which is mounted
EffectPending ==
    /\ ui.viewMode = "snapshot"
    /\ ui.selectedDate # <<>>
    /\ ~Includes(availableDates, ui.selectedDate[1])
    /\ Len(availableDates) > 0

\* React.useEffect: updateUI({ selectedDate: availableDates[0] })
SnapshotEffect ==
    /\ EffectPending
    /\ SetData([data EXCEPT !.ui = Spread(data.ui,
                                   [selectedDate |-> <<availableDates[1]>>])])
    /\ op' = Did("effect", ui.selectedDate)
    /\ UNCHANGED <<engineVars, importVars, toastVars>>

InitView == InitContext

\* the operations of the user on the ledger and on the ui, and the effect
NextView ==
    \/ \E entry \in ViewEntry :
          ~EffectPending /\ Len(entries) < MaxEntries /\ ContextAddEntry(entry)
    \/ \E i \in 1..Len(entries) :
          ~EffectPending /\ ContextDeleteEntry(entries[i].date, entries[i].investment)
    \/ \E updates \in UIUpdates : ~EffectPending /\ ContextUpdateUI(updates)
    \/ ~EffectPending /\ ContextClearData
    \/ SnapshotEffect

SpecView == InitView /\ [][NextView]_vars

\* the effect of a render runs
SpecViewFair == SpecView /\ WF_vars(SnapshotEffect)

\* the dates of the ledger and the latest of them
DatesOfLedger == {entries[i].date : i \in 1..Len(entries)}

LatestDate == CHOOSE d \in DatesOfLedger : \A e \in DatesOfLedger : e <= d

\* the stored date is a date no entry has, the ledger is not empty and the
\* Snapshot view is shown
StaleDate ==
    /\ ui.viewMode = "snapshot"
    /\ entries # <<>>
    /\ ui.selectedDate # <<>>
    /\ ui.selectedDate[1] \notin DatesOfLedger

\* the date the view shows is a date of the ledger: the stored one if some
\* entry has it, the latest otherwise
ShowsLedgerDate ==
    entries # <<>> =>
        LET shown == currentDate(ui.selectedDate, availableDates)
        IN  /\ shown # <<>>
            /\ shown[1] \in DatesOfLedger
            /\ shown = IF ui.selectedDate # <<>> /\ ui.selectedDate[1] \in DatesOfLedger
                       THEN ui.selectedDate
                       ELSE <<LatestDate>>

(* C29: the Snapshot view always displays a date that exists in the        *)
(* ledger: whenever the ledger is non-empty the displayed date is the      *)
(* stored selectedDate if some entry has that date and the latest date of  *)
(* the ledger otherwise; and a stored selectedDate that is not a date of   *)
(* the ledger is eventually updated to the latest date of the ledger.      *)
C29_SnapshotDate ==
    /\ []ShowsLedgerDate
    /\ StaleDate ~> (entries # <<>> /\ ui.selectedDate = <<LatestDate>>)

\* the effect replaced a date no entry has any more by the latest of two dates
C29_Witness ==
    /\ op.name = "effect"
    /\ op.key[1] \notin DatesOfLedger
    /\ Cardinality(DatesOfLedger) = 2
    /\ ui.selectedDate = <<LatestDate>>
    /\ ui.viewMode = "snapshot"

====
